---- MODULE Spec2Model ----
(***************************************************************************)
(* Cookie Cabinet: the background message handlers (background.ts), the    *)
(* cookie URL helper (cookieUtils.ts), the Storage Backend                 *)
(* (chrome.cookies) they drive, and the popup's file import and            *)
(* Copy as Set-Cookie (ImportExport.tsx).                                  *)
(*                                                                         *)
(* Strings are sequences of one-character strings, so that concatenation,  *)
(* startsWith and template literals are computed and not assumed.          *)
(* JavaScript runs every listener and every callback to completion: one    *)
(* action is one listener dispatch or one callback.                        *)
(***************************************************************************)
EXTENDS Integers, Sequences, FiniteSets, TLC

\* Bounds of the model.
MaxRequests == 1    \* messages the popup sends in one behaviour of Spec
MaxRecords == 3     \* records in one getAll result or import payload of Spec
MaxConcurrent == 2  \* bulk requests in flight at once in SpecConcurrent
MaxDeleteAll == 1   \* deleteAllCookies requests among them
MaxConcurrentRecords == 2  \* records in one list of SpecConcurrent
MaxInferCalls == 2  \* calls of getCookieUrl by one caller in SpecInfer
MaxImports == 1     \* importCookies messages of SpecImportFile
MaxFileRecords == 2 \* elements of the array in a file of SpecImportFile
MaxPopupRequests == 3  \* messages of the popup in SpecListed
MaxListed == 2      \* records in one getAll result of SpecListed

----------------------------------------------------------------------------
\* Strings

\* The JavaScript value undefined, where a string is expected.
Undefined == <<"undefined">>

HTTP == <<"h", "t", "t", "p", ":", "/", "/">>
HTTPS == <<"h", "t", "t", "p", "s", ":", "/", "/">>
WWW == <<"w", "w", "w", ".">>
UndefinedText == <<"u", "n", "d", "e", "f", "i", "n", "e", "d">>

\* s.startsWith(p)
StartsWith(s, p) ==
  /\ Len(s) >= Len(p)
  /\ SubSeq(s, 1, Len(p)) = p

\* `${x}` : a template literal renders undefined as the text "undefined".
Template(x) == IF x = Undefined THEN UndefinedText ELSE x

\* JavaScript truthiness of a string-or-undefined value (x || y takes y when
\* x is undefined or the empty string).
Truthy(x) == x # Undefined /\ x # <<>>

\* x || y
OrElse(x, y) == IF Truthy(x) THEN x ELSE y

\* The first position >= i at which character c occurs in s, or Len(s) + 1.
RECURSIVE IndexFrom(_, _, _)
IndexFrom(s, c, i) ==
  IF i > Len(s) THEN Len(s) + 1
  ELSE IF s[i] = c THEN i
  ELSE IndexFrom(s, c, i + 1)

\* new URL(u).hostname for u = <scheme>://<host>[/<path>]
Hostname(u) ==
  LET colon == IndexFrom(u, ":", 1)
      start == colon + 3
      stop == IndexFrom(u, "/", start)
  IN SubSeq(u, start, stop - 1)

\* h.replace(/^www\./, '')
StripWww(h) == IF StartsWith(h, WWW) THEN SubSeq(h, Len(WWW) + 1, Len(h)) ELSE h

----------------------------------------------------------------------------
\* Cookie records

\* interface Cookie. secure is "true", "false" or "undefined" (absent); value,
\* httpOnly, sameSite and expirationDate are passed through unchanged by every
\* handler and are left out of the record.
Cookie(name, domain, path, secure, url) ==
  [name |-> name, domain |-> domain, path |-> path, secure |-> secure, url |-> url]

\* JavaScript null where a cookie is expected.
NullCookie == Cookie(<<"null">>, Undefined, Undefined, "undefined", Undefined)

\* What a call returns when it throws: undefined.startsWith is a TypeError.
TypeError == <<"TypeError">>

\* Mutant: only secure === false gives http, an absent flag gives https.
GetCookieUrlSecureByDefault(cookie) ==
  LET protocol == IF cookie.secure = "false" THEN HTTP ELSE HTTPS
      domain == IF StartsWith(cookie.domain, <<".">>)
                THEN cookie.domain
                ELSE <<".">> \o cookie.domain
  IN IF cookie.domain = Undefined THEN TypeError
     ELSE protocol \o domain \o Template(cookie.path)

\* Mutant: the domain is used as it comes, without the leading dot.
GetCookieUrlDomainAsIs(cookie) ==
  LET protocol == IF cookie.secure = "true" THEN HTTPS ELSE HTTP
  IN IF cookie.domain = Undefined THEN TypeError
     ELSE protocol \o cookie.domain \o Template(cookie.path)

\* getCookieUrl
GetCookieUrl(cookie) ==
  LET protocol == IF cookie.secure = "true" THEN HTTPS ELSE HTTP
      domain == IF StartsWith(cookie.domain, <<".">>)
                THEN cookie.domain
                ELSE <<".">> \o cookie.domain
  IN IF cookie.domain = Undefined THEN TypeError
     ELSE protocol \o domain \o Template(cookie.path)

\* { ...cookie, url: getCookieUrl(cookie) } : a new record, the argument is
\* left as it is.
WithUrl(cookie) == [cookie EXCEPT !.url = GetCookieUrl(cookie)]

\* (cookies || []).map(cookie => ({ ...cookie, url: getCookieUrl(cookie) }))
MapWithUrl(cookies) == [i \in 1..Len(cookies) |-> WithUrl(cookies[i])]

----------------------------------------------------------------------------
\* Inputs: what the Storage Backend holds, and what the popup sends.

\* sender.tab?.url : absent, or the URL of the active tab.
TabUrl == HTTPS \o WWW \o <<"a", ".", "b", "/", "x">>
TabUrls == {Undefined, TabUrl}

\* Cookies as chrome.cookies reports them (domain and path always set).
StoredPool ==
  << Cookie(<<"s">>, <<".", "a", ".", "b">>, <<"/">>, "true", Undefined),
     Cookie(<<"s">>, <<"a", ".", "b">>, <<"/">>, "false", Undefined),
     Cookie(<<"t">>, <<"a", ".", "b">>, <<"/", "p">>, "false", Undefined) >>

\* Records of an imported JSON file: any field but the name may be missing.
ImportPool ==
  << Cookie(<<"s">>, <<"a", ".", "b">>, <<"/">>, "true", Undefined),
     Cookie(<<"s">>, <<>>, <<>>, "false", Undefined),
     Cookie(<<"t">>, Undefined, Undefined, "undefined",
            HTTPS \o <<"c", ".", "d", "/">>) >>

\* Records the cookie editor submits (CookieEditor.handleSubmit): every field
\* a string, url always ''.
EditorPool ==
  << Cookie(<<"s">>, <<"a", ".", "b">>, <<"/">>, "true", <<>>),
     Cookie(<<"t">>, <<>>, <<"/">>, "false", <<>>) >>

\* The lists of at most n distinct records of a pool, in pool order (the order
\* of completion is free, so the order of the input adds no case).
RECURSIVE ListsFrom(_, _, _)
ListsFrom(pool, from, n) ==
  IF n = 0 THEN {<<>>}
  ELSE {<<>>} \cup
       UNION { { <<pool[i]>> \o rest : rest \in ListsFrom(pool, i + 1, n - 1) } :
               i \in from..Len(pool) }

StoredLists == ListsFrom(StoredPool, 1, MaxRecords)
ImportLists == ListsFrom(ImportPool, 1, MaxRecords)

\* chrome.runtime.lastError inside a callback: <<>> when unset, else <<message>>.
NoLastError == <<>>
LastErrors == {NoLastError, <<"backend error">>}

----------------------------------------------------------------------------
\* State

VARIABLES
  requests,   \* the messages sent so far; a request's id is its position
  responses,  \* per request, the arguments of its sendResponse calls, in order
  calls,      \* the Storage Backend calls issued so far, pending or done
  closure,    \* per bulk invocation <<request, listener>>: its own completed,
              \* total and results (and the order in which its callbacks fired)
  reader,     \* the FileReader of the popup's import input: the text it reads
  importStatus,           \* ImportExport: useState importStatus (<<>> is null)
  selectedCookieForCopy,  \* ImportExport: useState selectedCookieForCopy,
                          \* with all fields of the Cookie interface
  exportStatus,           \* ImportExport: useState exportStatus
  clipboard,  \* the text on the clipboard (<<>> before the first copy)
  record,     \* the cookie a caller of getCookieUrl holds
  urls        \* its calls of getCookieUrl so far: argument and return value

\* The popup's ImportExport component, and a caller of getCookieUrl.
popup == <<reader, importStatus, selectedCookieForCopy, exportStatus, clipboard>>
caller == <<record, urls>>

vars == <<requests, responses, calls, closure, popup, caller>>

\* The two chrome.runtime.onMessage.addListener registrations of background.ts.
Listeners == {1, 2}

\* The argument of one sendResponse call; keys are the properties it carries,
\* by is the listener whose code made the call.
NoResponse ==
  [by |-> 0, keys |-> {}, error |-> "", message |-> <<>>, results |-> <<>>,
   cookies |-> <<>>, cookie |-> NullCookie, details |-> "null"]

ErrorResponse(lis, msg) ==
  [NoResponse EXCEPT !.by = lis, !.keys = {"error"}, !.error = msg]

MessageResponse(lis, msg) ==
  [NoResponse EXCEPT !.by = lis, !.keys = {"message"}, !.message = msg]

ResultsResponse(lis, msg, results) ==
  [NoResponse EXCEPT !.by = lis, !.keys = {"message", "results"},
                     !.message = msg, !.results = results]

CookiesResponse(lis, cookies) ==
  [NoResponse EXCEPT !.by = lis, !.keys = {"cookies"}, !.cookies = cookies]

CookieResponse(lis, cookie) ==
  [NoResponse EXCEPT !.by = lis, !.keys = {"cookie"}, !.cookie = cookie]

DetailsResponse(lis, details) ==
  [NoResponse EXCEPT !.by = lis, !.keys = {"details"}, !.details = details]

\* The details object of a chrome.cookies call; a property that the call does
\* not pass is Undefined.
Details(url, name, domain, path, secure) ==
  [url |-> url, name |-> name, domain |-> domain, path |-> path,
   secure |-> secure]

\* One chrome.cookies call and its callback: api is "getAll", "set" or
\* "remove"; idx is the position of the record in the bulk input (0 outside a
\* forEach).
Call(rid, lis, api, idx, details) ==
  [rid |-> rid, lis |-> lis, api |-> api, idx |-> idx, details |-> details,
   done |-> FALSE, result |-> "pending", lastError |-> <<>>,
   returned |-> <<>>]

\* The call once its callback has run: result is "value" for a non-null
\* argument, "null" for null and "unread" when the callback never looks at
\* it; lastError is chrome.runtime.lastError then, and returned the list a
\* getAll handed over.
Done(c, result, lastError, returned) ==
  [c EXCEPT !.done = TRUE, !.result = result, !.lastError = lastError,
            !.returned = returned]

\* What one run of a listener or callback does: the sendResponse calls it
\* makes and the chrome.cookies calls it issues.
Effect(resp, issued) == [resp |-> resp, issued |-> issued]
Nothing == Effect(<<>>, {})

TypeOK ==
  /\ Len(responses) = Len(requests)
  /\ \A c \in calls : c.rid \in 1..Len(requests) /\ c.lis \in Listeners
  /\ \A k \in DOMAIN closure : k[1] \in 1..Len(requests) /\ k[2] \in Listeners

\* The background script, just loaded.
InitBackground ==
  /\ requests = <<>>
  /\ responses = <<>>
  /\ calls = {}
  /\ closure = <<>>

\* interface Cookie with all its fields, as the popup lists a cookie:
\* secure and httpOnly are "true" or "false", sameSite is Undefined when
\* absent, expirationDate is <<>> when absent and <<seconds>> otherwise.
ListedCookie(name, value, domain, path, secure, httpOnly, sameSite, expirationDate) ==
  [name |-> name, value |-> value, domain |-> domain, path |-> path,
   secure |-> secure, httpOnly |-> httpOnly, sameSite |-> sameSite,
   expirationDate |-> expirationDate]

\* JavaScript null where a listed cookie is expected.
NoSelection ==
  ListedCookie(<<"null">>, <<>>, <<>>, <<>>, "false", "false", Undefined, <<>>)

\* The popup, just opened: no file chosen, no cookie selected.
InitPopup ==
  /\ reader = [state |-> "idle", text |-> <<>>]
  /\ importStatus = <<>>
  /\ selectedCookieForCopy = NoSelection
  /\ exportStatus = <<>>
  /\ clipboard = <<>>

Init ==
  /\ InitBackground
  /\ InitPopup
  /\ record = NullCookie
  /\ urls = <<>>

----------------------------------------------------------------------------
\* The bulk coordinator's pieces (deleteAllCookies and importCookies)

\* Mutant: the details argument is not looked at.
RemoveResultUnchecked(cookie, details) ==
  [success |-> TRUE, name |-> cookie.name, error |-> <<>>]

\* results.push(...) of the remove callback of listener 2; error is <<>> when
\* the entry has no error property.
RemoveResult(cookie, details) ==
  IF details # "null"
  THEN [success |-> TRUE, name |-> cookie.name, error |-> <<>>]
  ELSE [success |-> FALSE, name |-> cookie.name,
        error |-> <<"Not found or could not delete">>]

\* Mutant: the backend's message is dropped.
ErrorReasonDropped(lastError) == "Unknown error"

\* chrome.runtime.lastError?.message || 'Unknown error'
ErrorReason(lastError) ==
  IF lastError # NoLastError /\ lastError[1] # ""
  THEN lastError[1]
  ELSE "Unknown error"

\* results.push(...) of the set callback of importCookies.
SetResult(cookie, newCookie, lastError) ==
  IF newCookie # NullCookie
  THEN [success |-> TRUE, name |-> cookie.name, error |-> <<>>]
  ELSE [success |-> FALSE, name |-> cookie.name,
        error |-> <<ErrorReason(lastError)>>]

\* let completed = 0; const total = ...; const results = [];
\* cookies is the array the forEach closes over; fired is the order in which
\* the per-record callbacks ran (kept to state the claims, never read).
NewClosure(cookies) ==
  [completed |-> 0, total |-> Len(cookies), results |-> <<>>,
   cookies |-> cookies, fired |-> <<>>]

\* Mutant: the entry is put in front of the list (unshift for push).
CompleteInFront(cl, idx, entry) ==
  [cl EXCEPT !.completed = @ + 1,
             !.results = <<entry>> \o @,
             !.fired = Append(@, idx)]

\* Mutant: a failed record is listed but not counted.
CompleteCountingSuccesses(cl, idx, entry) ==
  [cl EXCEPT !.completed = IF entry.success THEN @ + 1 ELSE @,
             !.results = Append(@, entry),
             !.fired = Append(@, idx)]

\* Mutant: the counter goes up but the entry is not pushed.
CompleteWithoutEntry(cl, idx, entry) ==
  [cl EXCEPT !.completed = @ + 1,
             !.fired = Append(@, idx)]

\* completed++; results.push(entry);
Complete(cl, idx, entry) ==
  [cl EXCEPT !.completed = @ + 1,
             !.results = Append(@, entry),
             !.fired = Append(@, idx)]

\* completed++ of listener 1, which keeps no results.
CompleteCount(cl) == [cl EXCEPT !.completed = @ + 1]

\* Mutant: the response is sent as soon as one callback has run.
AllDoneAtFirst(cl) == cl.completed >= 1

\* if (completed === total)
AllDone(cl) == cl.completed = cl.total

\* Mutant: the filter is lost and every entry counts as a success.
SuccessCountUnfiltered(results) == Len(results)

\* results.filter(r => r.success).length
SuccessCount(results) ==
  Cardinality({i \in 1..Len(results) : results[i].success})

\* results.filter(r => !r.success).length
FailureCount(results) ==
  Cardinality({i \in 1..Len(results) : ~results[i].success})

\* `Successfully <verb> ${ok} of ${total} cookies.` and, when some failed,
\* ` ${failed} failed.`
Summary(verb, results, total) ==
  <<"Successfully ", verb, " ", ToString(SuccessCount(results)), " of ",
    ToString(total), " cookies.">>
  \o (IF FailureCount(results) > 0
      THEN <<" ", ToString(FailureCount(results)), " failed.">>
      ELSE <<>>)

\* sendResponse({ message, results }) once the last callback has run.
Aggregate(lis, verb, cl) ==
  IF AllDone(cl)
  THEN <<ResultsResponse(lis, Summary(verb, cl.results, cl.total), cl.results)>>
  ELSE <<>>

----------------------------------------------------------------------------
\* The listeners, up to their return

Request(action, tab, cookie, cookies) ==
  [action |-> action, tab |-> tab, cookie |-> cookie, cookies |-> cookies]

Actions ==
  {"getCookies", "saveCookie", "deleteCookie", "deleteAllCookies",
   "importCookies"}

\* chrome.cookies.getAll({ url: currentTabUrl }, ...)
GetAllCall(rid, lis, tab) ==
  Call(rid, lis, "getAll", 0,
       Details(tab, Undefined, Undefined, Undefined, "undefined"))

\* chrome.cookies.remove({ url, name }, ...) of deleteCookie
RemoveOneCall(rid, lis, cookie) ==
  Call(rid, lis, "remove", 0,
       Details(cookie.url, cookie.name, Undefined, Undefined, "undefined"))

\* `${cookie.secure ? 'https://' : 'http://'}${cookie.domain}${cookie.path}`
InlineUrl(cookie) ==
  (IF cookie.secure = "true" THEN HTTPS ELSE HTTP)
  \o Template(cookie.domain) \o Template(cookie.path)

\* cookies.forEach(cookie => chrome.cookies.remove({ url, name }, ...)) of
\* listener 1
IssueRemoves1(rid, cookies) ==
  { Call(rid, 1, "remove", i,
         Details(InlineUrl(cookies[i]), cookies[i].name, Undefined, Undefined,
                 "undefined")) : i \in 1..Len(cookies) }

\* Mutant: the loop stops after the first record.
IssueRemovesFirstOnly(rid, cookies) ==
  { Call(rid, 2, "remove", 1,
         Details(GetCookieUrl(cookies[1]), cookies[1].name, Undefined, Undefined,
                 "undefined")) }

\* Mutant: listener 2 removes by the inline URL of listener 1.
IssueRemovesInline(rid, cookies) ==
  { Call(rid, 2, "remove", i,
         Details(InlineUrl(cookies[i]), cookies[i].name, Undefined, Undefined,
                 "undefined")) : i \in 1..Len(cookies) }

\* cookies.forEach(cookie => chrome.cookies.remove({ url: cookieUrl, name }, ...))
\* of listener 2
IssueRemoves2(rid, cookies) ==
  { Call(rid, 2, "remove", i,
         Details(GetCookieUrl(cookies[i]), cookies[i].name, Undefined, Undefined,
                 "undefined")) : i \in 1..Len(cookies) }

\* new URL(currentTabUrl).hostname.replace(/^www\./, '')
FallbackDomain(tab) == StripWww(Hostname(tab))

\* The details of the chrome.cookies.set call of importCookies for one record.
ImportDetails(cookie, tab) ==
  LET inferredUrl ==
        GetCookieUrl([cookie EXCEPT !.domain = OrElse(cookie.domain, FallbackDomain(tab))])
  IN Details(inferredUrl, cookie.name, OrElse(cookie.domain, Undefined),
             OrElse(cookie.path, <<"/">>), cookie.secure)

\* cookiesToImport.forEach(cookie => chrome.cookies.set({...}, ...))
IssueSets(rid, cookies, tab) ==
  { Call(rid, 2, "set", i, ImportDetails(cookies[i], tab)) : i \in 1..Len(cookies) }

\* Mutant: getAll is issued without looking at the tab URL.
Listener1TabUnchecked(rid, req) ==
  CASE req.action \in {"getCookies", "deleteAllCookies"} ->
         Effect(<<>>, {GetAllCall(rid, 1, req.tab)})
    [] req.action = "saveCookie" ->
         Effect(<<>>, {Call(rid, 1, "set", 0,
                            Details(req.cookie.url, req.cookie.name,
                                    req.cookie.domain, req.cookie.path,
                                    req.cookie.secure))})
    [] req.action = "deleteCookie" ->
         Effect(<<>>, {RemoveOneCall(rid, 1, req.cookie)})
    [] OTHER -> Nothing

\* The first registered listener (it knows neither importCookies nor a default).
Listener1(rid, req) ==
  CASE req.action \in {"getCookies", "deleteAllCookies"} ->
         IF Truthy(req.tab)
         THEN Effect(<<>>, {GetAllCall(rid, 1, req.tab)})
         ELSE Effect(<<ErrorResponse(1, "No active tab URL found")>>, {})
    [] req.action = "saveCookie" ->
         Effect(<<>>, {Call(rid, 1, "set", 0,
                            Details(req.cookie.url, req.cookie.name,
                                    req.cookie.domain, req.cookie.path,
                                    req.cookie.secure))})
    [] req.action = "deleteCookie" ->
         Effect(<<>>, {RemoveOneCall(rid, 1, req.cookie)})
    [] OTHER -> Nothing

\* Mutant: the default response is missing, as it is in the first listener.
Listener2NoDefault(rid, req) ==
  CASE req.action \in {"getCookies", "deleteAllCookies"} ->
         IF Truthy(req.tab)
         THEN Effect(<<>>, {GetAllCall(rid, 2, req.tab)})
         ELSE Effect(<<ErrorResponse(2, "No active tab URL found")>>, {})
    [] req.action = "saveCookie" ->
         LET inferredUrl == OrElse(req.cookie.url, GetCookieUrl(req.cookie))
         IN Effect(<<>>, {Call(rid, 2, "set", 0,
                               Details(inferredUrl, req.cookie.name,
                                       OrElse(req.cookie.domain, Undefined),
                                       req.cookie.path, req.cookie.secure))})
    [] req.action = "deleteCookie" ->
         Effect(<<>>, {RemoveOneCall(rid, 2, req.cookie)})
    [] req.action = "importCookies" ->
         IF ~Truthy(req.tab)
         THEN Effect(<<ErrorResponse(2, "No active tab URL found for import")>>, {})
         ELSE IF Len(req.cookies) = 0
         THEN Effect(<<MessageResponse(2, <<"No cookies provided for import">>)>>, {})
         ELSE Effect(<<>>, IssueSets(rid, req.cookies, req.tab))
    [] OTHER -> Nothing

\* The second registered listener.
Listener2(rid, req) ==
  CASE req.action \in {"getCookies", "deleteAllCookies"} ->
         IF Truthy(req.tab)
         THEN Effect(<<>>, {GetAllCall(rid, 2, req.tab)})
         ELSE Effect(<<ErrorResponse(2, "No active tab URL found")>>, {})
    [] req.action = "saveCookie" ->
         LET inferredUrl == OrElse(req.cookie.url, GetCookieUrl(req.cookie))
         IN Effect(<<>>, {Call(rid, 2, "set", 0,
                               Details(inferredUrl, req.cookie.name,
                                       OrElse(req.cookie.domain, Undefined),
                                       req.cookie.path, req.cookie.secure))})
    [] req.action = "deleteCookie" ->
         Effect(<<>>, {RemoveOneCall(rid, 2, req.cookie)})
    [] req.action = "importCookies" ->
         IF ~Truthy(req.tab)
         THEN Effect(<<ErrorResponse(2, "No active tab URL found for import")>>, {})
         ELSE IF Len(req.cookies) = 0
         THEN Effect(<<MessageResponse(2, <<"No cookies provided for import">>)>>, {})
         ELSE Effect(<<>>, IssueSets(rid, req.cookies, req.tab))
    [] OTHER -> Effect(<<ErrorResponse(2, "Unknown action")>>, {})

\* let completed = 0; const total = ...; const results = [] of importCookies:
\* declared once the tab URL is known, before the empty check.
ImportClosure(rid, req) ==
  IF req.action = "importCookies" /\ Truthy(req.tab)
  THEN <<rid, 2>> :> NewClosure(req.cookies)
  ELSE <<>>

\* chrome.runtime.sendMessage(req): the browser runs every registered
\* listener on the message, in the order of registration.
Dispatch(req) ==
  LET rid == Len(requests) + 1
      e1 == Listener1(rid, req)
      e2 == Listener2(rid, req)
  IN /\ requests' = Append(requests, req)
     /\ responses' = Append(responses, e1.resp \o e2.resp)
     /\ calls' = calls \cup e1.issued \cup e2.issued
     /\ closure' = closure @@ ImportClosure(rid, req)

----------------------------------------------------------------------------
\* Actions: the popup's messages

GetCookies ==
  \E tab \in TabUrls :
    /\ Len(requests) < MaxRequests
    /\ Dispatch(Request("getCookies", tab, NullCookie, <<>>))
    /\ UNCHANGED <<popup, caller>>

SaveCookie ==
  \E tab \in TabUrls, i \in 1..Len(EditorPool) :
    /\ Len(requests) < MaxRequests
    /\ Dispatch(Request("saveCookie", tab, EditorPool[i], <<>>))
    /\ UNCHANGED <<popup, caller>>

\* handleDeleteCookie sends { name, url } of a listed cookie.
DeleteCookie ==
  \E tab \in TabUrls, i \in 1..Len(StoredPool) :
    /\ Len(requests) < MaxRequests
    /\ Dispatch(Request("deleteCookie", tab, WithUrl(StoredPool[i]), <<>>))
    /\ UNCHANGED <<popup, caller>>

DeleteAllCookies ==
  \E tab \in TabUrls :
    /\ Len(requests) < MaxRequests
    /\ Dispatch(Request("deleteAllCookies", tab, NullCookie, <<>>))
    /\ UNCHANGED <<popup, caller>>

ImportCookies ==
  \E tab \in TabUrls, cookies \in ImportLists :
    /\ Len(requests) < MaxRequests
    /\ Dispatch(Request("importCookies", tab, NullCookie, cookies))
    /\ UNCHANGED <<popup, caller>>

UnknownAction ==
  \E tab \in TabUrls :
    /\ Len(requests) < MaxRequests
    /\ Dispatch(Request("ping", tab, NullCookie, <<>>))
    /\ UNCHANGED <<popup, caller>>

----------------------------------------------------------------------------
\* Actions: the Storage Backend's callbacks

Pending(api, action) ==
  {c \in calls : ~c.done /\ c.api = api /\ requests[c.rid].action = action}

\* The callback of call c has run with the given result, made the
\* sendResponse calls resp and issued the chrome.cookies calls issued.
Return(c, result, lastError, returned, eff) ==
  /\ calls' = (calls \ {c}) \cup {Done(c, result, lastError, returned)}
               \cup eff.issued
  /\ responses' = [responses EXCEPT ![c.rid] = @ \o eff.resp]
  /\ UNCHANGED <<requests, popup, caller>>

\* (cookies) => { ... } of getCookies
GetCookiesReply(lis, lastError, cookies) ==
  IF lastError # NoLastError
  THEN ErrorResponse(lis, lastError[1])
  ELSE IF lis = 1
  THEN CookiesResponse(1, cookies)
  ELSE CookiesResponse(2, MapWithUrl(cookies))

GetCookiesCallback ==
  \E c \in Pending("getAll", "getCookies"), lastError \in LastErrors,
     cookies \in StoredLists :
    /\ lastError # NoLastError => cookies = <<>>
    /\ Return(c, IF lastError # NoLastError THEN "null" ELSE "value", lastError,
              cookies, Effect(<<GetCookiesReply(c.lis, lastError, cookies)>>, {}))
    /\ UNCHANGED closure

\* The cookie chrome.cookies.set reports for the details it was given.
StoredCookie(details) ==
  Cookie(details.name,
         IF details.domain = Undefined THEN Hostname(details.url) ELSE details.domain,
         details.path, details.secure, Undefined)

\* (cookie) => { ... } of saveCookie
SaveCookieReply(lis, lastError, cookie) ==
  IF lastError # NoLastError
  THEN ErrorResponse(lis, lastError[1])
  ELSE IF lis = 1
  THEN CookieResponse(1, cookie)
  ELSE CookieResponse(2, IF cookie # NullCookie THEN WithUrl(cookie) ELSE NullCookie)

SaveCookieCallback ==
  \E c \in Pending("set", "saveCookie"), lastError \in LastErrors,
     ok \in BOOLEAN :
    /\ lastError # NoLastError => ~ok
    /\ LET cookie == IF ok THEN StoredCookie(c.details) ELSE NullCookie
       IN Return(c, IF ok THEN "value" ELSE "null", lastError, <<>>,
                 Effect(<<SaveCookieReply(c.lis, lastError, cookie)>>, {}))
    /\ UNCHANGED closure

\* (details) => { ... } of deleteCookie, the same in both listeners
DeleteCookieReply(lis, lastError, details) ==
  IF lastError # NoLastError
  THEN ErrorResponse(lis, lastError[1])
  ELSE DetailsResponse(lis, details)

DeleteCookieCallback ==
  \E c \in Pending("remove", "deleteCookie"), lastError \in LastErrors,
     details \in {"null", "value"} :
    /\ lastError # NoLastError => details = "null"
    /\ Return(c, details, lastError, <<>>,
              Effect(<<DeleteCookieReply(c.lis, lastError, details)>>, {}))
    /\ UNCHANGED closure

\* Mutant: the total === 0 check is missing.
DeleteAllStartUnchecked(rid, lis, lastError, cookies) ==
  IF lastError # NoLastError
  THEN Effect(<<ErrorResponse(lis, lastError[1])>>, {})
  ELSE IF lis = 1
  THEN Effect(<<>>, IssueRemoves1(rid, cookies))
  ELSE Effect(<<>>, IssueRemoves2(rid, cookies))

\* (cookies) => { ... } of deleteAllCookies, up to the end of the forEach
DeleteAllStart(rid, lis, lastError, cookies) ==
  IF lastError # NoLastError
  THEN Effect(<<ErrorResponse(lis, lastError[1])>>, {})
  ELSE IF Len(cookies) = 0
  THEN Effect(<<MessageResponse(lis, <<"No cookies to delete">>)>>, {})
  ELSE IF lis = 1
  THEN Effect(<<>>, IssueRemoves1(rid, cookies))
  ELSE Effect(<<>>, IssueRemoves2(rid, cookies))

\* let completed = 0 (and const results = [] in listener 2): listener 1
\* declares it before the empty check, listener 2 after it.
DeleteAllClosure(rid, lis, lastError, cookies) ==
  IF lastError = NoLastError /\ (lis = 1 \/ Len(cookies) > 0)
  THEN <<rid, lis>> :> NewClosure(cookies)
  ELSE <<>>

\* The getAll callback of deleteAllCookies, the backend reporting an error or
\* one of the given lists.
DeleteAllGetAll(lists) ==
  \E c \in Pending("getAll", "deleteAllCookies"), lastError \in LastErrors,
     cookies \in lists :
    /\ lastError # NoLastError => cookies = <<>>
    /\ Return(c, IF lastError # NoLastError THEN "null" ELSE "value", lastError,
              cookies, DeleteAllStart(c.rid, c.lis, lastError, cookies))
    /\ closure' = closure @@ DeleteAllClosure(c.rid, c.lis, lastError, cookies)

DeleteAllGetAllCallback ==
  /\ Pending("getAll", "deleteAllCookies") # {}
  /\ DeleteAllGetAll(StoredLists)

\* (details) => { completed++; ... } of listener 1
RemoveDone1(cl) ==
  LET after == CompleteCount(cl)
  IN [cl |-> after,
      resp |-> IF AllDone(after)
               THEN <<MessageResponse(1, <<"Deleted ", ToString(after.total), " cookies">>)>>
               ELSE <<>>]

\* (details) => { completed++; ... } of listener 2
RemoveDone2(cl, idx, details) ==
  LET after == Complete(cl, idx, RemoveResult(cl.cookies[idx], details))
  IN [cl |-> after, resp |-> Aggregate(2, "deleted", after)]

RemoveCallback ==
  \E c \in Pending("remove", "deleteAllCookies"), details \in {"null", "value"} :
    LET key == <<c.rid, c.lis>>
        out == IF c.lis = 1
               THEN RemoveDone1(closure[key])
               ELSE RemoveDone2(closure[key], c.idx, details)
    IN /\ Return(c, IF c.lis = 1 THEN "unread" ELSE details, NoLastError, <<>>,
                 Effect(out.resp, {}))
       /\ closure' = [closure EXCEPT ![key] = out.cl]

\* Mutant: completed is one module-level counter, shared by all invocations.
RECURSIVE SumCompleted(_)
SumCompleted(keys) ==
  IF keys = {} THEN 0
  ELSE LET k == CHOOSE x \in keys : TRUE
       IN closure[k].completed + SumCompleted(keys \ {k})

SetDoneSharedCounter(cl, idx, newCookie, lastError) ==
  LET own == Complete(cl, idx, SetResult(cl.cookies[idx], newCookie, lastError))
      after == [own EXCEPT !.completed = SumCompleted(DOMAIN closure) + 1]
  IN [cl |-> after, resp |-> Aggregate(2, "imported", after)]

\* (newCookie) => { completed++; ... } of importCookies
SetDone(cl, idx, newCookie, lastError) ==
  LET after == Complete(cl, idx, SetResult(cl.cookies[idx], newCookie, lastError))
  IN [cl |-> after, resp |-> Aggregate(2, "imported", after)]

SetCallback ==
  \E c \in Pending("set", "importCookies"), ok \in BOOLEAN,
     lastError \in LastErrors :
    /\ ok => lastError = NoLastError
    /\ LET key == <<c.rid, c.lis>>
           newCookie == IF ok THEN StoredCookie(c.details) ELSE NullCookie
           out == SetDone(closure[key], c.idx, newCookie, lastError)
       IN /\ Return(c, IF ok THEN "value" ELSE "null", lastError, <<>>,
                    Effect(out.resp, {}))
          /\ closure' = [closure EXCEPT ![key] = out.cl]

----------------------------------------------------------------------------

Next ==
  \/ GetCookies
  \/ SaveCookie
  \/ DeleteCookie
  \/ DeleteAllCookies
  \/ ImportCookies
  \/ UnknownAction
  \/ GetCookiesCallback
  \/ SaveCookieCallback
  \/ DeleteCookieCallback
  \/ DeleteAllGetAllCallback
  \/ RemoveCallback
  \/ SetCallback

Spec == Init /\ [][Next]_vars

\* Spec, with every per-record callback of a bulk operation firing in the end
\* (the Storage Backend answers every remove and every set).
SpecLive == Spec /\ WF_vars(RemoveCallback) /\ WF_vars(SetCallback)

\* Two bulk operations in flight: the popup sends deleteAllCookies and
\* importCookies messages without waiting for the answers.
ConcurrentDeleteAll ==
  /\ Cardinality({r \in 1..Len(requests) :
                    requests[r].action = "deleteAllCookies"}) < MaxDeleteAll
  /\ Len(requests) < MaxConcurrent
  /\ Dispatch(Request("deleteAllCookies", TabUrl, NullCookie, <<>>))
  /\ UNCHANGED <<popup, caller>>

ConcurrentImport ==
  \E cookies \in ListsFrom(ImportPool, 1, MaxConcurrentRecords) :
    /\ Len(requests) < MaxConcurrent
    /\ Dispatch(Request("importCookies", TabUrl, NullCookie, cookies))
    /\ UNCHANGED <<popup, caller>>

ConcurrentGetAllCallback ==
  /\ Pending("getAll", "deleteAllCookies") # {}
  /\ DeleteAllGetAll(ListsFrom(StoredPool, 1, MaxConcurrentRecords))

NextConcurrent ==
  \/ ConcurrentDeleteAll
  \/ ConcurrentImport
  \/ ConcurrentGetAllCallback
  \/ RemoveCallback
  \/ SetCallback

SpecConcurrent == Init /\ [][NextConcurrent]_vars

----------------------------------------------------------------------------
\* The popup's list: App.loadCookies, handleDeleteCookie, handleMassDelete

\* What the Storage Backend holds for the tab: a cookie of the domain .a.b
\* and the host-only cookie of the same name and path.
ListedPool ==
  << Cookie(<<"s">>, <<".", "a", ".", "b">>, <<"/">>, "false", Undefined),
     Cookie(<<"s">>, <<"a", ".", "b">>, <<"/">>, "false", Undefined) >>

ListedLists == ListsFrom(ListedPool, 1, MaxListed)

\* loadCookies: the popup asks for the cookies of the tab.
LoadCookies ==
  /\ requests = <<>>
  /\ Dispatch(Request("getCookies", TabUrl, NullCookie, <<>>))
  /\ UNCHANGED <<popup, caller>>

\* The getAll callback of getCookies, over the cookies of the tab.
LoadCookiesCallback ==
  \E c \in Pending("getAll", "getCookies"), lastError \in LastErrors,
     cookies \in ListedLists :
    /\ lastError # NoLastError => cookies = <<>>
    /\ Return(c, IF lastError # NoLastError THEN "null" ELSE "value", lastError,
              cookies, Effect(<<GetCookiesReply(c.lis, lastError, cookies)>>, {}))
    /\ UNCHANGED closure

\* setCookies(response.cookies || []) in the callback of loadCookies: the
\* callback gets the argument of the first sendResponse call.
Listed(rid) ==
  IF /\ requests[rid].action = "getCookies"
     /\ responses[rid] # <<>>
     /\ "cookies" \in responses[rid][1].keys
  THEN responses[rid][1].cookies
  ELSE <<>>

\* handleDeleteCookie: { action: 'deleteCookie', cookie: { name, url } } for
\* a cookie of the list. (The request keeps the other fields of the listed
\* cookie, which no handler reads, to tell which record it was built from.)
DeleteListedCookie ==
  \E rid \in 1..Len(requests) :
    \E i \in 1..Len(Listed(rid)) :
      /\ Len(requests) < MaxPopupRequests
      /\ Dispatch(Request("deleteCookie", TabUrl, Listed(rid)[i], <<>>))
      /\ UNCHANGED <<popup, caller>>

\* handleMassDelete, in a popup that has sent its first loadCookies
MassDelete ==
  /\ Len(requests) \in 1..(MaxPopupRequests - 1)
  /\ \A rid \in 1..Len(requests) : requests[rid].action # "deleteAllCookies"
  /\ Dispatch(Request("deleteAllCookies", TabUrl, NullCookie, <<>>))
  /\ UNCHANGED <<popup, caller>>

\* The getAll callback of deleteAllCookies, over the cookies of the tab.
MassDeleteCallback ==
  /\ Pending("getAll", "deleteAllCookies") # {}
  /\ DeleteAllGetAll(ListedLists)

NextListed ==
  \/ LoadCookies
  \/ LoadCookiesCallback
  \/ DeleteListedCookie
  \/ DeleteCookieCallback
  \/ MassDelete
  \/ MassDeleteCallback
  \/ RemoveCallback

\* The popup lists the cookies of the tab and deletes one of them, or all.
SpecListed == Init /\ [][NextListed]_vars

----------------------------------------------------------------------------
\* The popup's import: ImportExport.handleImportChange, App.handleImportCookies

\* The text of a file is a sequence of JSON lexemes: the punctuation "[", "]"
\* and ",", a number, or an object literal, which stands for the cookie
\* record that its properties describe.
Lexeme(kind, cookie) == [kind |-> kind, cookie |-> cookie]
Punct(c) == Lexeme(c, NullCookie)
Number == Lexeme("number", NullCookie)
Object(cookie) == Lexeme("object", cookie)

\* A parsed JSON value: an array of values, an object or a number.
Value(kind, items, cookie) == [kind |-> kind, items |-> items, cookie |-> cookie]

\* The outcome of parsing one value from position i on: ok is FALSE for a
\* SyntaxError, next is the position after the value.
Parsed(next, value) == [ok |-> TRUE, next |-> next, value |-> value]
SyntaxError == [ok |-> FALSE, next |-> 0, value |-> Value("none", <<>>, NullCookie)]

\* JSON.parse, by recursive descent: ParseValue reads one value, ParseRest
\* the elements of an array after its first one.
RECURSIVE ParseValue(_, _)
RECURSIVE ParseRest(_, _, _)
ParseValue(text, i) ==
  IF i > Len(text) THEN SyntaxError
  ELSE IF text[i].kind = "number" THEN Parsed(i + 1, Value("number", <<>>, NullCookie))
  ELSE IF text[i].kind = "object" THEN Parsed(i + 1, Value("object", <<>>, text[i].cookie))
  ELSE IF text[i].kind = "["
  THEN IF i + 1 <= Len(text) /\ text[i + 1].kind = "]"
       THEN Parsed(i + 2, Value("array", <<>>, NullCookie))
       ELSE LET first == ParseValue(text, i + 1)
            IN IF first.ok THEN ParseRest(text, first.next, <<first.value>>)
               ELSE SyntaxError
  ELSE SyntaxError

ParseRest(text, i, items) ==
  IF i > Len(text) THEN SyntaxError
  ELSE IF text[i].kind = "]" THEN Parsed(i + 1, Value("array", items, NullCookie))
  ELSE IF text[i].kind = ","
  THEN LET item == ParseValue(text, i + 1)
       IN IF item.ok THEN ParseRest(text, item.next, Append(items, item.value))
          ELSE SyntaxError
  ELSE SyntaxError

\* JSON.parse(content): the whole text has to be one value.
ParseJson(text) ==
  LET v == ParseValue(text, 1)
  IN IF v.ok /\ v.next = Len(text) + 1 THEN v ELSE SyntaxError

\* Array.isArray(importedCookies)
IsArray(value) == value.kind = "array"

\* An element of the imported array, read as a Cookie by the handlers: the
\* properties of an object, and undefined for every property of an element
\* that is no object.
AsCookie(value) ==
  IF value.kind = "object" THEN value.cookie
  ELSE Cookie(Undefined, Undefined, Undefined, "undefined", Undefined)

AsCookies(items) == [i \in 1..Len(items) |-> AsCookie(items[i])]

\* The object literals of the files: a complete record, a record without a
\* domain, and a record with neither domain nor path.
FilePool ==
  << Object(Cookie(<<"s">>, <<"a", ".", "b">>, <<"/">>, "true", Undefined)),
     Object(Cookie(<<"t">>, <<>>, <<"/">>, "false", Undefined)),
     Object(Cookie(<<"u">>, <<>>, Undefined, "false", Undefined)) >>

\* A JSON array of the given elements, as text.
RECURSIVE Separated(_)
Separated(elements) ==
  IF Len(elements) = 0 THEN <<>>
  ELSE IF Len(elements) = 1 THEN elements
  ELSE <<Head(elements), Punct(",")>> \o Separated(Tail(elements))

ArrayText(elements) == <<Punct("[")>> \o Separated(elements) \o <<Punct("]")>>

\* The files the user picks: arrays (of records, and one of a number), and
\* texts that are no JSON (empty, cut off, a comma too many, something after
\* the value) or no array (one object, one number).
ArrayFiles ==
  {ArrayText(elements) : elements \in ListsFrom(FilePool, 1, MaxFileRecords)}
  \cup {ArrayText(<<Number>>)}
BrokenFiles ==
  { <<>>,
    <<Punct("["), FilePool[1]>>,
    <<Punct("["), FilePool[1], Punct(","), Punct("]")>>,
    <<Punct("["), Punct("]"), Punct("]")>>,
    <<Punct(",")>> }
OtherFiles == { <<FilePool[1]>>, <<Number>> }
Files == ArrayFiles \cup BrokenFiles \cup OtherFiles

\* Mutant: the Array.isArray check is missing; whatever parses is passed on.
ImportedCookiesUnchecked(parsed) ==
  IF ~parsed.ok THEN [send |-> FALSE, cookies |-> <<>>,
                      status |-> <<"Error parsing JSON: ", "SyntaxError">>]
  ELSE [send |-> TRUE, cookies |-> AsCookies(parsed.value.items),
        status |-> <<"Successfully imported ",
                     ToString(Len(parsed.value.items)), " cookies.">>]

\* reader.onload of handleImportChange, given the outcome of JSON.parse:
\* whether onImport is called, with which cookies, and the import status.
ImportedCookies(parsed) ==
  IF ~parsed.ok THEN [send |-> FALSE, cookies |-> <<>>,
                      status |-> <<"Error parsing JSON: ", "SyntaxError">>]
  ELSE IF IsArray(parsed.value)
  THEN [send |-> TRUE, cookies |-> AsCookies(parsed.value.items),
        status |-> <<"Successfully imported ",
                     ToString(Len(parsed.value.items)), " cookies.">>]
  ELSE [send |-> FALSE, cookies |-> <<>>,
        status |-> <<"Error: Imported file does not contain an array of cookies.">>]

\* handleImportChange: the user picks a file and the FileReader starts to
\* read it. (The timers that clear the status after five seconds are left
\* out.)
ImportChange ==
  \E text \in Files :
    /\ Len(requests) < MaxImports
    /\ reader.state # "reading"
    /\ reader' = [state |-> "reading", text |-> text]
    /\ importStatus' = <<"Processing file...">>
    /\ UNCHANGED <<requests, responses, calls, closure, selectedCookieForCopy,
                   exportStatus, clipboard, caller>>

\* reader.onload: the text is parsed; an array goes to onImport, which is
\* handleImportCookies and sends the importCookies message.
ReaderOnload ==
  \E tab \in TabUrls :
    /\ reader.state = "reading"
    /\ LET out == ImportedCookies(ParseJson(reader.text))
       IN /\ IF out.send
             THEN Dispatch(Request("importCookies", tab, NullCookie, out.cookies))
             ELSE UNCHANGED <<requests, responses, calls, closure>>
          /\ importStatus' = out.status
    /\ reader' = [reader EXCEPT !.state = "done"]
    /\ UNCHANGED <<selectedCookieForCopy, exportStatus, clipboard, caller>>

NextImportFile ==
  \/ ImportChange
  \/ ReaderOnload
  \/ SetCallback

\* The import of a file, from the file input to the aggregated response.
SpecImportFile == Init /\ [][NextImportFile]_vars

----------------------------------------------------------------------------
\* The popup's "Copy as Set-Cookie": ImportExport.handleCopyAsSetCookie

\* encodeURIComponent on one character: letters and digits stay, the others
\* become their percent escape.
EncodeChar(c) ==
  CASE c = ";" -> <<"%", "3", "B">>
    [] c = "=" -> <<"%", "3", "D">>
    [] c = " " -> <<"%", "2", "0">>
    [] OTHER -> <<c>>

\* encodeURIComponent
RECURSIVE EncodeURIComponent(_)
EncodeURIComponent(str) ==
  IF str = <<>> THEN <<>>
  ELSE EncodeChar(Head(str)) \o EncodeURIComponent(Tail(str))

\* c.toUpperCase() for the first letters of strict, lax and none
ToUpperCase(c) ==
  CASE c = "s" -> "S"
    [] c = "l" -> "L"
    [] c = "n" -> "N"
    [] OTHER -> c

\* sameSite.charAt(0).toUpperCase() + sameSite.slice(1)
Capitalize(str) ==
  IF str = <<>> THEN <<>> ELSE <<ToUpperCase(Head(str))>> \o Tail(str)

\* A number in two digits.
Pad2(n) == IF n < 10 THEN <<"0", ToString(n)>> ELSE <<ToString(n)>>

DayNames == <<"Sun", "Mon", "Tue", "Wed", "Thu", "Fri", "Sat">>
MonthNames ==
  <<"Jan", "Feb", "Mar", "Apr", "May", "Jun", "Jul", "Aug", "Sep", "Oct",
    "Nov", "Dec">>

\* new Date(ms).toUTCString() for ms >= 0: the day of the week from the day
\* number (1 January 1970 was a Thursday), the date from the days since
\* 1 March 0000 in the proleptic Gregorian calendar.
ToUTCString(ms) ==
  LET seconds == ms \div 1000
      days == seconds \div 86400
      inDay == seconds % 86400
      z == days + 719468
      era == z \div 146097
      doe == z - era * 146097
      yoe == (doe - doe \div 1460 + doe \div 36524 - doe \div 146096) \div 365
      doy == doe - (365 * yoe + yoe \div 4 - yoe \div 100)
      mp == (5 * doy + 2) \div 153
      day == doy - (153 * mp + 2) \div 5 + 1
      month == IF mp < 10 THEN mp + 3 ELSE mp - 9
      year == yoe + era * 400 + (IF month <= 2 THEN 1 ELSE 0)
  IN <<DayNames[((days + 4) % 7) + 1], ", ">> \o Pad2(day)
     \o <<" ", MonthNames[month], " ", ToString(year), " ">>
     \o Pad2(inDay \div 3600) \o <<":">> \o Pad2((inDay % 3600) \div 60)
     \o <<":">> \o Pad2(inDay % 60) \o <<" GMT">>

\* The Set-Cookie header of handleCopyAsSetCookie: every if appends its
\* attribute when its field is truthy ('' and 0 are not).
SetCookieHeader(cookie) ==
  cookie.name \o <<"=">> \o EncodeURIComponent(cookie.value)
  \o (IF Truthy(cookie.domain) THEN <<"; Domain=">> \o cookie.domain ELSE <<>>)
  \o (IF Truthy(cookie.path) THEN <<"; Path=">> \o cookie.path ELSE <<>>)
  \o (IF cookie.secure = "true" THEN <<"; Secure">> ELSE <<>>)
  \o (IF cookie.httpOnly = "true" THEN <<"; HttpOnly">> ELSE <<>>)
  \o (IF Truthy(cookie.sameSite)
      THEN <<"; SameSite=">> \o Capitalize(cookie.sameSite) ELSE <<>>)
  \o (IF cookie.expirationDate # <<>> /\ cookie.expirationDate[1] # 0
      THEN <<"; Expires=">> \o ToUTCString(cookie.expirationDate[1] * 1000)
      ELSE <<>>)

\* The cookies of the popup's list.
CopyCookies ==
  {ListedCookie(<<"i", "d">>, value, domain, path, secure, httpOnly, sameSite,
                expirationDate) :
     value \in {<<"v">>, <<"a", ";", " ", "b">>},
     domain \in {<<>>, <<"x", ".", "c", "o", "m">>},
     path \in {<<>>, <<"/">>},
     secure \in {"true", "false"},
     httpOnly \in {"true", "false"},
     sameSite \in {Undefined, <<"l", "a", "x">>},
     expirationDate \in {<<>>, <<0>>, <<90061>>}}

\* onChange of the select: one of the listed cookies, or "Select a cookie".
SelectCookie ==
  \E cookie \in CopyCookies \cup {NoSelection} :
    /\ selectedCookieForCopy' = cookie
    /\ UNCHANGED <<requests, responses, calls, closure, reader, importStatus,
                   exportStatus, clipboard, caller>>

\* handleCopyAsSetCookie, and the outcome of navigator.clipboard.writeText.
CopyAsSetCookie ==
  \E written \in BOOLEAN :
    /\ IF selectedCookieForCopy = NoSelection
       THEN /\ exportStatus' = <<"Please select a cookie first.">>
            /\ UNCHANGED clipboard
       ELSE IF written
       THEN /\ clipboard' = SetCookieHeader(selectedCookieForCopy)
            /\ exportStatus' = <<"Set-Cookie header copied to clipboard.">>
       ELSE /\ exportStatus' = <<"Failed to copy to clipboard.">>
            /\ UNCHANGED clipboard
    /\ UNCHANGED <<requests, responses, calls, closure, reader, importStatus,
                   selectedCookieForCopy, caller>>

NextCopy ==
  \/ SelectCookie
  \/ CopyAsSetCookie

SpecCopy == Init /\ [][NextCopy]_vars

----------------------------------------------------------------------------
\* getCookieUrl by itself

\* The records a caller may hold: the domain undefined, empty, bare or with
\* a leading dot, the path empty or not, secure true, false or absent.
InferDomains ==
  {Undefined, <<>>, <<"b">>, <<"a", ".", "b">>, <<".", "a", ".", "b">>}
InferPaths == {<<>>, <<"/">>, <<"/", "p">>}
InferRecords ==
  {Cookie(<<"s">>, domain, path, secure, Undefined) :
     domain \in InferDomains, path \in InferPaths,
     secure \in {"true", "false", "undefined"}}

InitInfer ==
  /\ InitBackground
  /\ InitPopup
  /\ record \in InferRecords
  /\ urls = <<>>

\* The record with a dot put in front of its domain.
WithDot(cookie) == [cookie EXCEPT !.domain = <<".">> \o @]

\* One call getCookieUrl(arg) and what it returned.
InferCall(arg) == [arg |-> arg, url |-> GetCookieUrl(arg)]

\* The caller infers the URL of its record.
Infer ==
  /\ Len(urls) < MaxInferCalls
  /\ urls' = Append(urls, InferCall(record))
  /\ UNCHANGED <<requests, responses, calls, closure, popup, record>>

\* The caller infers the URL of its record in the leading-dot form of its
\* domain.
InferWithDot ==
  /\ Len(urls) < MaxInferCalls
  /\ record.domain # Undefined
  /\ ~StartsWith(record.domain, <<".">>)
  /\ urls' = Append(urls, InferCall(WithDot(record)))
  /\ UNCHANGED <<requests, responses, calls, closure, popup, record>>

NextInfer ==
  \/ Infer
  \/ InferWithDot

SpecInfer == InitInfer /\ [][NextInfer]_vars

----------------------------------------------------------------------------
\* What the properties below speak about

\* The runs of the bulk coordinator: one per request and listener.
Invocations == DOMAIN closure

\* The per-record chrome.cookies calls of invocation k.
RecordCalls(k) == {c \in calls : c.rid = k[1] /\ c.lis = k[2] /\ c.idx > 0}

\* Those whose callback has not run yet.
Outstanding(k) == {c \in RecordCalls(k) : ~c.done}

\* The call of invocation k for the record at position i of its input.
CallOf(k, i) == CHOOSE c \in RecordCalls(k) : c.idx = i

\* The sendResponse calls made by the code of invocation k, in order.
SentBy(k) == SelectSeq(responses[k[1]], LAMBDA r : r.by = k[2])

\* A response built when the counter reached total: { message, results } of
\* listener 2, `Deleted ${total} cookies` of listener 1.
IsAggregated(r) ==
  \/ r.keys = {"message", "results"}
  \/ r.keys = {"message"} /\ Len(r.message) = 3 /\ r.message[1] = "Deleted "

\* The bulk invocations over at least one record.
BulkRuns == {k \in Invocations : Len(closure[k].cookies) >= 1}

\* "deleted" or "imported": the verb of the summary of invocation k.
VerbOf(k) ==
  IF requests[k[1]].action = "importCookies" THEN "imported" ELSE "deleted"

----------------------------------------------------------------------------
\* C1: a bulk invocation over N >= 1 records sends nothing while one of its
\* per-record callbacks is outstanding, and once the last one has run (the
\* callback that brings completed to N) it has sent exactly one response, the
\* aggregated one; it never sends a second.
C1_AggregatedOnce ==
  \A k \in BulkRuns :
    /\ Cardinality(Outstanding(k)) + closure[k].completed = Len(closure[k].cookies)
    /\ Outstanding(k) # {} => SentBy(k) = <<>>
    /\ Outstanding(k) = {} =>
         /\ Len(SentBy(k)) = 1
         /\ IsAggregated(SentBy(k)[1])

\* An import over at least two records has delivered its response.
C1_Witness ==
  \E k \in BulkRuns :
    /\ requests[k[1]].action = "importCookies"
    /\ closure[k].total >= 2
    /\ Len(SentBy(k)) = 1

----------------------------------------------------------------------------
\* C2: when every per-record callback of a bulk invocation fires in the end,
\* the invocation delivers its aggregated response in the end, whatever the
\* order of the callbacks and whichever of them report a failure.
C2_EventuallyDelivered ==
  \A k \in (1..MaxRequests) \X Listeners :
    (k \in BulkRuns) ~>
      (k \in BulkRuns /\ Len(SentBy(k)) = 1 /\ IsAggregated(SentBy(k)[1]))

\* A response delivered after the callbacks ran against the order of the
\* input, one reporting success and one reporting failure.
C2_Witness ==
  \E k \in BulkRuns :
    /\ Len(SentBy(k)) = 1
    /\ closure[k].total >= 2
    /\ closure[k].fired[1] > closure[k].fired[2]
    /\ \E i, j \in 1..Len(closure[k].results) :
         closure[k].results[i].success /\ ~closure[k].results[j].success

----------------------------------------------------------------------------
\* The { message, results } responses of invocation k.
ResultsOf(k) ==
  {SentBy(k)[j] : j \in {i \in 1..Len(SentBy(k)) : "results" \in SentBy(k)[i].keys}}

\* The records of invocation k whose backend callback reported a non-null value.
Succeeded(k) == {c \in RecordCalls(k) : c.result = "value"}

\* The summary text for ok successes and failed failures out of n records.
SummaryText(verb, ok, failed, n) ==
  <<"Successfully ", verb, " ", ToString(ok), " of ", ToString(n), " cookies.">>
  \o (IF failed > 0 THEN <<" ", ToString(failed), " failed.">> ELSE <<>>)

\* C3: in the result a bulk invocation over N records delivers, the number of
\* successes is the number of records whose backend callback reported a
\* non-null value, the number of failures is the number of the others, the
\* two add up to N and the per-item list has N entries; the message states
\* these counts.
C3_Counts ==
  \A k \in BulkRuns : \A r \in ResultsOf(k) :
    LET n == Len(closure[k].cookies)
        ok == Cardinality(Succeeded(k))
        successes == {i \in 1..Len(r.results) : r.results[i].success}
        failures == {i \in 1..Len(r.results) : ~r.results[i].success}
    IN /\ Len(r.results) = n
       /\ Cardinality(successes) = ok
       /\ Cardinality(failures) = n - ok
       /\ Cardinality(successes) + Cardinality(failures) = n
       /\ r.message = SummaryText(VerbOf(k), ok, n - ok, n)

\* A result over at least two records, exactly one of which failed.
C3_Witness ==
  \E k \in BulkRuns : \E r \in ResultsOf(k) :
    /\ Len(closure[k].cookies) >= 2
    /\ Cardinality(Succeeded(k)) = Len(closure[k].cookies) - 1

----------------------------------------------------------------------------
\* C4: in the delivered result every input record has exactly one entry, with
\* its name, and the entries stand in the order in which the callbacks ran.
C4_EachRecordOnce ==
  \A k \in BulkRuns : \A r \in ResultsOf(k) :
    LET cl == closure[k]
        n == Len(cl.cookies)
    IN /\ Len(r.results) = n
       /\ Len(cl.fired) = n
       /\ {cl.fired[j] : j \in 1..n} = 1..n
       /\ \A j \in 1..n : r.results[j].name = cl.cookies[cl.fired[j]].name

\* A result whose callbacks ran against the input order, over records of
\* different names.
C4_Witness ==
  \E k \in BulkRuns : \E r \in ResultsOf(k) :
    /\ closure[k].total = 2
    /\ closure[k].fired = <<2, 1>>
    /\ closure[k].cookies[1].name # closure[k].cookies[2].name

----------------------------------------------------------------------------
\* The runs of the deleteAllCookies coordinator of listener 2, and of the
\* importCookies coordinator.
DeleteRuns == {k \in BulkRuns : k[2] = 2 /\ requests[k[1]].action = "deleteAllCookies"}
ImportRuns == {k \in BulkRuns : requests[k[1]].action = "importCookies"}

\* C5: in deleteAllCookies the entry of a record is a success exactly when
\* the remove callback of that record reported a non-null detail; a null
\* detail gives a failure entry.
C5_DeleteEntries ==
  \A k \in DeleteRuns :
    LET cl == closure[k]
    IN /\ \A j \in 1..Len(cl.results) :
            LET c == CallOf(k, cl.fired[j])
            IN /\ c.api = "remove"
               /\ cl.results[j].success <=> (c.result = "value")
               /\ ~cl.results[j].success <=>
                    (cl.results[j].error = <<"Not found or could not delete">>)
       /\ \A r \in ResultsOf(k) : r.results = cl.results

\* A delivered deleteAllCookies result with a success and a failure entry.
C5_Witness ==
  \E k \in DeleteRuns : \E r \in ResultsOf(k) :
    \E i, j \in 1..Len(r.results) : r.results[i].success /\ ~r.results[j].success

----------------------------------------------------------------------------
\* C6: in importCookies the entry of a record is a success exactly when the
\* set callback of that record returned a non-null cookie; otherwise it is a
\* failure entry that carries the message of chrome.runtime.lastError when
\* there is one (and 'Unknown error' when there is no lastError or its message
\* is empty).
C6_ImportEntries ==
  \A k \in ImportRuns :
    LET cl == closure[k]
    IN /\ \A j \in 1..Len(cl.results) :
            LET c == CallOf(k, cl.fired[j])
                e == cl.results[j]
            IN /\ c.api = "set"
               /\ e.success <=> (c.result = "value")
               /\ e.success => e.error = <<>>
               /\ ~e.success =>
                    e.error = IF c.lastError # NoLastError /\ c.lastError[1] # ""
                              THEN c.lastError
                              ELSE <<"Unknown error">>
       /\ \A r \in ResultsOf(k) : r.results = cl.results

\* A delivered import result with a failure entry that carries the backend's
\* message, and a success entry.
C6_Witness ==
  \E k \in ImportRuns : \E r \in ResultsOf(k) :
    \E i, j \in 1..Len(r.results) :
      /\ r.results[i].success
      /\ r.results[j].error = <<"backend error">>

----------------------------------------------------------------------------
\* C7: a bulk invocation over N >= 1 records issues exactly N backend calls,
\* one per record (remove for deleteAllCookies, set for importCookies),
\* whatever the other records' calls report, and sends nothing before all N
\* callbacks have run.
C7_AllIssued ==
  \A k \in BulkRuns :
    LET cl == closure[k]
        n == Len(cl.cookies)
        api == IF requests[k[1]].action = "importCookies" THEN "set" ELSE "remove"
    IN /\ Cardinality(RecordCalls(k)) = n
       /\ \A i \in 1..n :
            \E c \in RecordCalls(k) :
              c.idx = i /\ c.api = api /\ c.details.name = cl.cookies[i].name
       /\ SentBy(k) # <<>> => Outstanding(k) = {}

\* The first record has failed and the others have been processed all the
\* same: one of them is still awaited, or has succeeded after the failure.
C7_Witness ==
  \E k \in BulkRuns :
    /\ Len(closure[k].cookies) >= 2
    /\ k[2] = 2
    /\ Len(closure[k].fired) >= 1
    /\ CallOf(k, closure[k].fired[1]).result = "null"
    /\ Outstanding(k) = {}
    /\ \E c \in RecordCalls(k) : c.result = "value"

----------------------------------------------------------------------------
\* The runs of a bulk handler whose input is empty: an importCookies request
\* with a tab URL and no cookies, and a deleteAllCookies run whose getAll
\* reported an empty list.
EmptyRuns ==
  {k \in (1..Len(requests)) \X Listeners :
     \/ /\ requests[k[1]].action = "importCookies"
        /\ k[2] = 2
        /\ Truthy(requests[k[1]].tab)
        /\ requests[k[1]].cookies = <<>>
     \/ /\ requests[k[1]].action = "deleteAllCookies"
        /\ \E c \in calls :
             /\ c.rid = k[1] /\ c.lis = k[2] /\ c.api = "getAll" /\ c.done
             /\ c.lastError = NoLastError /\ c.returned = <<>>}

\* The message of the response to an empty input.
EmptyMessage(k) ==
  IF requests[k[1]].action = "importCookies"
  THEN <<"No cookies provided for import">>
  ELSE <<"No cookies to delete">>

----------------------------------------------------------------------------
\* C9: with two bulk operations in flight and their callbacks interleaved,
\* every invocation counts its own callbacks only, delivers its own
\* aggregated response exactly once, and that response lists exactly its own
\* records with the outcomes of its own calls.
C9_PrivateState ==
  \A k \in BulkRuns :
    LET cl == closure[k]
        n == Len(cl.cookies)
    IN /\ cl.completed = Cardinality(RecordCalls(k) \ Outstanding(k))
       /\ Cardinality(RecordCalls(k)) = n
       /\ Outstanding(k) # {} => SentBy(k) = <<>>
       /\ Outstanding(k) = {} => Len(SentBy(k)) = 1 /\ IsAggregated(SentBy(k)[1])
       /\ \A r \in ResultsOf(k) :
            /\ Len(r.results) = n
            /\ r.message = SummaryText(VerbOf(k), Cardinality(Succeeded(k)),
                                       n - Cardinality(Succeeded(k)), n)
            /\ \A j \in 1..n :
                 /\ r.results[j].name = cl.cookies[cl.fired[j]].name
                 /\ r.results[j].success <=> (CallOf(k, cl.fired[j]).result = "value")

\* An import over two records has delivered its result while a
\* deleteAllCookies run over two records is halfway.
C9_Witness ==
  \E k1, k2 \in BulkRuns :
    /\ k1[1] # k2[1]
    /\ k1 \in ImportRuns /\ closure[k1].total = 2 /\ ResultsOf(k1) # {}
    /\ k2 \in DeleteRuns /\ closure[k2].total = 2 /\ closure[k2].completed = 1

----------------------------------------------------------------------------
\* The chrome.cookies calls of request rid whose callback has not run.
PendingOf(rid) == {c \in calls : c.rid = rid /\ ~c.done}

\* C10: every request is answered exactly once: sendResponse is never called
\* a second time for a request, and it has been called once when no callback
\* of the request is outstanding.
C10_ExactlyOneResponse ==
  \A rid \in 1..Len(requests) :
    /\ Len(responses[rid]) <= 1
    /\ PendingOf(rid) = {} => Len(responses[rid]) = 1

----------------------------------------------------------------------------
\* The sendResponse({ error: 'Unknown action' }) of the second listener.
IsUnknownAction(r) == r.keys = {"error"} /\ r.error = "Unknown action"

\* C11: a request whose action is none of the five known ones is answered
\* with { error: 'Unknown action' } and issues no chrome.cookies call; a
\* request with a known action is never answered with 'Unknown action'.
C11_UnknownAction ==
  \A rid \in 1..Len(requests) :
    IF requests[rid].action \in Actions
    THEN \A i \in 1..Len(responses[rid]) : ~IsUnknownAction(responses[rid][i])
    ELSE /\ Len(responses[rid]) = 1
         /\ IsUnknownAction(responses[rid][1])
         /\ \A c \in calls : c.rid # rid
         /\ \A k \in Invocations : k[1] # rid

\* A message with an unknown action has been handled.
C11_Witness ==
  \E rid \in 1..Len(requests) :
    /\ requests[rid].action \notin Actions
    /\ responses[rid] # <<>>

----------------------------------------------------------------------------
\* The requests that need the URL of the active tab, sent without one.
NoActiveContext ==
  {rid \in 1..Len(requests) :
     /\ requests[rid].action \in {"getCookies", "deleteAllCookies", "importCookies"}
     /\ ~Truthy(requests[rid].tab)}

\* The responses { error: 'No active tab URL found' } and { error: 'No active
\* tab URL found for import' }.
IsNoTabError(r) ==
  /\ r.keys = {"error"}
  /\ r.error \in {"No active tab URL found", "No active tab URL found for import"}

\* C12: getCookies, deleteAllCookies and importCookies sent without an active
\* tab URL are answered with an error, and no chrome.cookies call (getAll,
\* set or remove) is ever issued for them, nor is a bulk run started.
C12_NoActiveTab ==
  \A rid \in NoActiveContext :
    /\ responses[rid] # <<>>
    /\ \A i \in 1..Len(responses[rid]) : IsNoTabError(responses[rid][i])
    /\ \A c \in calls : c.rid # rid
    /\ \A k \in Invocations : k[1] # rid

\* An import of two records was sent without an active tab URL.
C12_Witness ==
  \E rid \in NoActiveContext :
    /\ requests[rid].action = "importCookies"
    /\ Len(requests[rid].cookies) = 2
    /\ responses[rid] # <<>>

----------------------------------------------------------------------------
\* The import statuses that report an aborted import.
ImportErrors ==
  { <<"Error parsing JSON: ", "SyntaxError">>,
    <<"Error: Imported file does not contain an array of cookies.">> }

----------------------------------------------------------------------------
\* The set calls of importCookies for records that came without a domain.
FallbackCalls ==
  {c \in calls :
     /\ c.api = "set" /\ c.idx > 0
     /\ ~Truthy(requests[c.rid].cookies[c.idx].domain)}

\* C14: the set call that importCookies issues for a record without a domain
\* carries the fallback domain (the host of the active tab without "www."):
\* as its domain, or at least as the host of its url, with or without a
\* leading dot.
C14_CarriesFallback ==
  \A c \in FallbackCalls :
    LET fallback == FallbackDomain(requests[c.rid].tab)
    IN \/ c.details.domain = fallback
       \/ Hostname(c.details.url) \in {fallback, <<".">> \o fallback}

----------------------------------------------------------------------------
\* The importCookies requests with a record that has no domain, sent when no
\* fallback is to be had (no active tab URL).
NoFallback ==
  {rid \in 1..Len(requests) :
     /\ requests[rid].action = "importCookies"
     /\ ~Truthy(requests[rid].tab)
     /\ \E i \in 1..Len(requests[rid].cookies) :
          ~Truthy(requests[rid].cookies[i].domain)}

----------------------------------------------------------------------------
\* The calls of getCookieUrl on a record with a domain and a path.
CompleteCalls ==
  {i \in 1..Len(urls) : Truthy(urls[i].arg.domain) /\ Truthy(urls[i].arg.path)}

\* The text of u after its host: the path of <scheme>://<host><path>.
PathOf(u) ==
  LET start == IndexFrom(u, ":", 1) + 3
  IN SubSeq(u, IndexFrom(u, "/", start), Len(u))

\* The domain without its leading dot.
Bare(domain) ==
  IF StartsWith(domain, <<".">>) THEN SubSeq(domain, 2, Len(domain)) ELSE domain

\* C16: on a record with a non-empty domain and a non-empty path
\* getCookieUrl does not throw; it returns <scheme>://<host><path>, with the
\* scheme https exactly when secure is true (http when it is false or
\* absent), the host the record's domain (in its leading-dot form) and the
\* path the record's path; and two calls on the same record return the same
\* URL.
C16_InferForm ==
  /\ \A i \in CompleteCalls :
       LET arg == urls[i].arg
           url == urls[i].url
       IN /\ url # TypeError
          /\ StartsWith(url, HTTPS) <=> (arg.secure = "true")
          /\ StartsWith(url, HTTP) <=> (arg.secure # "true")
          /\ Bare(Hostname(url)) = Bare(arg.domain)
          /\ PathOf(url) = arg.path
  /\ \A i, j \in CompleteCalls :
       urls[i].arg = urls[j].arg => urls[i].url = urls[j].url

\* getCookieUrl has been called twice on a record with a domain, a path and
\* no secure flag.
C16_Witness ==
  /\ Len(urls) = 2
  /\ CompleteCalls = {1, 2}
  /\ urls[1].arg = urls[2].arg
  /\ urls[1].arg.secure = "undefined"

----------------------------------------------------------------------------
\* C17: for a domain d without a leading dot, getCookieUrl returns the same
\* URL for the record with domain d and for the record with domain "." d,
\* whatever the path and the secure flag.
C17_LeadingDot ==
  \A i, j \in 1..Len(urls) :
    (/\ urls[i].arg.domain # Undefined
     /\ ~StartsWith(urls[i].arg.domain, <<".">>)
     /\ urls[j].arg = WithDot(urls[i].arg))
    => urls[i].url = urls[j].url

\* The URL of a record with a bare domain and of its leading-dot form have
\* both been inferred.
C17_Witness ==
  /\ Len(urls) = 2
  /\ urls[1].arg.domain = <<"a", ".", "b">>
  /\ urls[2].arg = WithDot(urls[1].arg)
  /\ urls[2].url # TypeError

----------------------------------------------------------------------------
\* A URL, as opposed to a signalled condition.
IsUrl(u) == StartsWith(u, HTTP) \/ StartsWith(u, HTTPS)

\* C18: on a record whose domain is empty getCookieUrl returns no URL (it
\* signals InvalidRecord).
C18_InvalidRecord ==
  \A i \in 1..Len(urls) :
    ~Truthy(urls[i].arg.domain) => ~IsUrl(urls[i].url)

----------------------------------------------------------------------------
\* The attributes of a Set-Cookie header, in the order the claim fixes.
Attributes ==
  <<"; Domain=", "; Path=", "; Secure", "; HttpOnly", "; SameSite=", "; Expires=">>

\* Whether the field of an attribute is present in a cookie: Domain and Path
\* non-empty, Secure and HttpOnly true, sameSite and expirationDate there.
Present(cookie, attribute) ==
  CASE attribute = "; Domain=" -> cookie.domain # <<>>
    [] attribute = "; Path=" -> cookie.path # <<>>
    [] attribute = "; Secure" -> cookie.secure = "true"
    [] attribute = "; HttpOnly" -> cookie.httpOnly = "true"
    [] attribute = "; SameSite=" -> cookie.sameSite # Undefined
    [] attribute = "; Expires=" -> cookie.expirationDate # <<>>

\* The attributes that occur in a header, in the order in which they occur.
AttributesIn(header) ==
  SelectSeq(header, LAMBDA x : x \in {Attributes[i] : i \in 1..Len(Attributes)})

\* C19: the header that Copy as Set-Cookie writes starts with
\* <name>=<encoded value> and goes on with exactly the attributes whose
\* field is present, each once, in the order Domain, Path, Secure, HttpOnly,
\* SameSite, Expires; a cookie with expirationDate 0 gets its Expires.
C19_HeaderAttributes ==
  [][clipboard' # clipboard =>
       LET cookie == selectedCookieForCopy
           start == cookie.name \o <<"=">> \o EncodeURIComponent(cookie.value)
       IN /\ StartsWith(clipboard', start)
          /\ AttributesIn(clipboard') =
               SelectSeq(Attributes, LAMBDA a : Present(cookie, a))]_vars

----------------------------------------------------------------------------
\* The set calls of importCookies, one per record.
ImportCalls ==
  {c \in calls :
     c.api = "set" /\ c.idx > 0 /\ requests[c.rid].action = "importCookies"}

\* C20: importCookies writes a record that carries an explicit url with that
\* url; only a record without one is written to the URL that getCookieUrl
\* infers for it.
C20_ExplicitUrl ==
  \A c \in ImportCalls :
    LET cookie == requests[c.rid].cookies[c.idx]
    IN Truthy(cookie.url) => c.details.url = cookie.url

----------------------------------------------------------------------------
\* C21: for a record whose path is empty or missing (and that carries no url
\* of its own) the set call of importCookies has the path "/", and the path
\* of its url is "/" as well.
C21_DefaultPath ==
  \A c \in ImportCalls :
    LET cookie == requests[c.rid].cookies[c.idx]
    IN (~Truthy(cookie.path) /\ ~Truthy(cookie.url)) =>
         /\ c.details.path = <<"/">>
         /\ PathOf(c.details.url) = <<"/">>

----------------------------------------------------------------------------
\* The chrome.cookies calls of the single-record handlers whose callback has
\* run.
SingleCalls ==
  {c \in calls :
     /\ c.done
     /\ requests[c.rid].action \in {"getCookies", "saveCookie", "deleteCookie"}}

\* C22: a single-record handler passes on the one outcome of its backend
\* call. saveCookie answers { cookie } with a cookie when, and only when,
\* set returned one, and { error } when set failed, by a reported error or
\* by returning null; getCookies and deleteCookie answer { error } exactly
\* when the backend reported an error.
C22_Propagates ==
  \A c \in SingleCalls :
    LET sent == SentBy(<<c.rid, c.lis>>)
    IN /\ Len(sent) = 1
       /\ IF requests[c.rid].action = "saveCookie"
          THEN /\ c.result = "value" =>
                    sent[1].keys = {"cookie"} /\ sent[1].cookie # NullCookie
               /\ c.result = "null" => sent[1].keys = {"error"}
          ELSE (sent[1].keys = {"error"}) <=> (c.lastError # NoLastError)

----------------------------------------------------------------------------
\* The runs of the coordinator that keep a result list: those of the second
\* listener (deleteAllCookies and importCookies).
ListRuns == {k \in Invocations : k[2] = 2}

\* C23: at every moment of a bulk run over N records its counter equals the
\* length of its result list and lies between 0 and N, and every per-record
\* callback raises the counter by exactly one and appends exactly one entry
\* to the list, leaving the earlier entries as they are.
C23_CounterMatchesList ==
  /\ [](\A k \in ListRuns :
          /\ closure[k].completed = Len(closure[k].results)
          /\ closure[k].completed \in 0..closure[k].total
          /\ closure[k].total = Len(closure[k].cookies))
  /\ [][\A k \in ListRuns :
          closure'[k] # closure[k] =>
            /\ closure'[k].completed = closure[k].completed + 1
            /\ Len(closure'[k].results) = Len(closure[k].results) + 1
            /\ SubSeq(closure'[k].results, 1, Len(closure[k].results))
                 = closure[k].results
            /\ closure'[k].total = closure[k].total]_vars

\* A deleteAllCookies run over three records after two of its callbacks.
C23_Witness ==
  \E k \in ListRuns :
    /\ requests[k[1]].action = "deleteAllCookies"
    /\ closure[k].total = 3
    /\ closure[k].completed = 2
    /\ Len(closure[k].results) = 2

----------------------------------------------------------------------------
\* The natural key of a record.
NaturalKey(cookie) == <<cookie.name, cookie.domain, cookie.path>>

\* The key by which a remove call addresses the Storage Backend.
BackendKey(c) == <<c.details.url, c.details.name>>

\* The runs of deleteAllCookies, of either listener.
MassDeleteRuns ==
  {k \in BulkRuns : requests[k[1]].action = "deleteAllCookies"}

\* C24: two records of one deleteAllCookies run that differ in their natural
\* key (name, domain, path) are removed under different backend keys (url,
\* name), also when they differ only by the leading dot of the domain.
C24_DistinctKeys ==
  \A k \in MassDeleteRuns :
    \A i, j \in 1..Len(closure[k].cookies) :
      NaturalKey(closure[k].cookies[i]) # NaturalKey(closure[k].cookies[j])
      => BackendKey(CallOf(k, i)) # BackendKey(CallOf(k, j))

----------------------------------------------------------------------------
\* The record of the Storage Backend that a cookie with a url was made from.
Stored(cookie) == [cookie EXCEPT !.url = Undefined]

\* The sendResponse calls of listener lis for the getCookies requests.
ListingsBy(lis) ==
  UNION { { SentBy(<<rid, lis>>)[n] : n \in 1..Len(SentBy(<<rid, lis>>)) } :
          rid \in {q \in 1..Len(requests) : requests[q].action = "getCookies"} }

\* The records that the getCookies handler with getCookieUrl (the second
\* registration) handed to the popup.
ListedRecords ==
  UNION { { r.cookies[i] : i \in 1..Len(r.cookies) } : r \in ListingsBy(2) }

\* The remove calls of the deleteCookie requests.
DeleteCalls ==
  {c \in calls : c.api = "remove" /\ requests[c.rid].action = "deleteCookie"}

\* The remove calls by which the deleteAllCookies handler of the second
\* registration removes the stored record.
BulkCallsFor(stored) ==
  UNION { { CallOf(k, j) : j \in { n \in 1..Len(closure[k].cookies) :
                                    closure[k].cookies[n] = stored } } :
          k \in {r \in MassDeleteRuns : r[2] = 2} }

\* The getAll calls of that getCookies handler whose callback got a list.
ListingCalls ==
  {c \in calls : /\ c.api = "getAll" /\ c.done /\ c.result = "value"
                 /\ c.lis = 2 /\ requests[c.rid].action = "getCookies"}

====
